---- MODULE Spec2Model ----
(***************************************************************************)
(* State-machine model of src/src/liquidity_pool.rs (struct LpPool and its *)
(* four operations init, add_liquidity, remove_liquidity and swap).        *)
(*                                                                         *)
(* Numbers.  The program keeps every quantity in a u64 scaled by           *)
(* PRECISION_FACTOR = 2^32, so that the largest u64 is PRECISION_FACTOR^2. *)
(* The model keeps that shape at a smaller width: PRECISION_FACTOR is      *)
(* 2^PrecisionBits and a machine word holds 2 * PrecisionBits bits, so     *)
(* every overflow and underflow of the program's integer arithmetic has    *)
(* its counterpart here.  A decimal (f64) argument or result d is          *)
(* represented by the integer 4 * PRECISION_FACTOR * d: the decimals of    *)
(* the model are the multiples of a quarter of one scaled unit, so the     *)
(* rounding of the conversion to scaled integers is visible.  Floating     *)
(* point products and quotients are computed exactly.                      *)
(*                                                                         *)
(* Integer overflow.  An overflowing +, - or * on u64 panics when the      *)
(* crate is built with overflow checks (the debug profile) and wraps       *)
(* modulo the word size when it is built without them (the release         *)
(* profile); overflow_checks says which build is running.  A division by   *)
(* zero panics in both.  A panic ends the run of the pool, with the fields *)
(* as the interrupted call left them.                                      *)
(***************************************************************************)
EXTENDS Integers, Sequences, FiniteSets, TLC

\* ------------------------------------------------------------------ bounds
\* log2 of the scaling factor; a machine word has 2 * PrecisionBits bits.
PrecisionBits == 8
\* Callers stop adding liquidity once the LP supply would pass
\* MaxSupply * 0.5 tokens.
MaxSupply == 6
\* The largest amount a caller passes is MaxAmount * 0.5 tokens.
MaxAmount == 3
\* The number of calls the callers make on a pool once it is built.
MaxCalls == 4
\* The largest LP supply, in whole tokens, in the runs of the story example.
MaxStorySupply == 200

\* ------------------------------------------------------- numeric layer
PRECISION_FACTOR == 2 ^ PrecisionBits

\* Number of values of a machine word (u64 in the program).
WordSize == PRECISION_FACTOR * PRECISION_FACTOR

\* u64::MAX
U64_MAX == WordSize - 1

\* The decimal 1.0 in the model's representation of f64 values.
One == 4 * PRECISION_FACTOR

\* f64 -> u64 cast: saturating at both ends.
as_u64(x) == IF x <= 0 THEN 0 ELSE IF x > U64_MAX THEN U64_MAX ELSE x

\* (x * PRECISION_FACTOR as f64).round() as u64 : round half away from zero.
to_scaled(x) == IF x <= 0 THEN 0 ELSE as_u64((x + 2) \div 4)

\* x as f64 / PRECISION_FACTOR as f64
from_scaled(n) == 4 * n

\* Mutant: the percentage is scaled without the factor 0.01.
fee_to_scaled_percent(t) ==
    IF t <= 0 THEN 0 ELSE as_u64((2 * t * PRECISION_FACTOR + 10) \div 20)

\* (0.01 * fee * PRECISION_FACTOR as f64).round() as u64, the fee given in
\* tenths of a percent.
fee_to_scaled(t) ==
    IF t <= 0 THEN 0 ELSE as_u64((2 * t * PRECISION_FACTOR + 1000) \div 2000)

\* Checked/wrapping u64 arithmetic: the value the wrapping build computes and
\* whether the exact result left the range of a word.
u64_add(a, b) == [val |-> (a + b) % WordSize, ovf |-> a + b > U64_MAX]

u64_sub(a, b) == [val |-> (a - b) % WordSize, ovf |-> a < b]

u64_mul(a, b) ==
    LET a1 == a \div PRECISION_FACTOR
        a0 == a % PRECISION_FACTOR
        b1 == b \div PRECISION_FACTOR
        b0 == b % PRECISION_FACTOR
    IN  [val |-> (a0 * b0 + ((a1 * b0 + a0 * b1) % PRECISION_FACTOR) * PRECISION_FACTOR)
                     % WordSize,
         ovf |-> a # 0 /\ b > U64_MAX \div a]

\* ------------------------------------------------------------ the pool
\* struct LpPool
LpPool == [price : 0..U64_MAX, token_amount : 0..U64_MAX,
           st_token_amount : 0..U64_MAX, lp_token_amount : 0..U64_MAX,
           liquidity_target : 0..U64_MAX, min_fee : 0..U64_MAX,
           max_fee : 0..U64_MAX]

\* The fields before LpPool::init has built the pool.
NoPool == [price |-> 0, token_amount |-> 0, st_token_amount |-> 0,
           lp_token_amount |-> 0, liquidity_target |-> 0, min_fee |-> 0,
           max_fee |-> 0]

\* enum LpPoolError
LpPoolError == {"InvalidFee", "InsufficientLiquidity", "InsufficientStakedTokens",
                "InvalidTokenAmount"}

\* Outcome of one call: the fields it leaves, Ok / an LpPoolError / Panic,
\* the decimals it returns, the raw fee expression it computed (-1 if it
\* computed none) and whether an integer operation of the call wrapped.
Outcome(p, r, v, f, w) == [pool |-> p, res |-> r, ret |-> v, fee |-> f, wrapped |-> w]

Panic(p, f) == Outcome(p, "Panic", <<>>, f, FALSE)

\* ------------------------------------------------------------ LpPool::init
\* Mutant: the validation leaves out min_fee > max_fee.
init_unordered_fees(price, liquidity_target, min_fee, max_fee) ==
    IF max_fee > 1000 \/ min_fee < 0 \/ liquidity_target <= 0
    THEN Outcome(NoPool, "InvalidFee", <<>>, -1, FALSE)
    ELSE Outcome([price            |-> to_scaled(price),
                  token_amount     |-> to_scaled(liquidity_target),
                  st_token_amount  |-> 0,
                  lp_token_amount  |-> to_scaled(liquidity_target),
                  liquidity_target |-> to_scaled(liquidity_target),
                  min_fee          |-> fee_to_scaled(min_fee),
                  max_fee          |-> fee_to_scaled(max_fee)],
                 "Ok", <<>>, -1, FALSE)

init(price, liquidity_target, min_fee, max_fee) ==
    IF max_fee > 1000 \/ min_fee < 0 \/ min_fee > max_fee \/ liquidity_target <= 0
    THEN Outcome(NoPool, "InvalidFee", <<>>, -1, FALSE)
    ELSE Outcome([price            |-> to_scaled(price),
                  token_amount     |-> to_scaled(liquidity_target),
                  st_token_amount  |-> 0,
                  lp_token_amount  |-> to_scaled(liquidity_target),
                  liquidity_target |-> to_scaled(liquidity_target),
                  min_fee          |-> fee_to_scaled(min_fee),
                  max_fee          |-> fee_to_scaled(max_fee)],
                 "Ok", <<>>, -1, FALSE)

\* --------------------------------------------------- LpPool::add_liquidity
\* let tokens_to_add = new_tokens_u64 / 2;
tokens_to_add(new_tokens_u64) == new_tokens_u64 \div 2

\* let staked_tokens_to_add = new_tokens_u64 - tokens_to_add;
staked_tokens_to_add(new_tokens_u64) == new_tokens_u64 - tokens_to_add(new_tokens_u64)

\* Mutant: the LP tokens issued are the base-token half of the contribution.
lp_token_received_half(new_tokens_u64) == new_tokens_u64 \div 2

\* let lp_token_received = LpTokenAmount(new_tokens_u64);
lp_token_received(new_tokens_u64) == new_tokens_u64

\* Mutant: only a negative amount is rejected.
add_liquidity_accepts_zero(self, token_amount, checks) ==
    LET new_tokens_u64 == to_scaled(token_amount)
        t  == u64_add(self.token_amount, tokens_to_add(new_tokens_u64))
        s  == u64_add(self.st_token_amount, staked_tokens_to_add(new_tokens_u64))
        l  == u64_add(self.lp_token_amount, lp_token_received(new_tokens_u64))
        p1 == [self EXCEPT !.token_amount = t.val]
        p2 == [p1 EXCEPT !.st_token_amount = s.val]
        p3 == [p2 EXCEPT !.lp_token_amount = l.val]
    IN  IF token_amount < 0
        THEN Outcome(self, "InvalidTokenAmount", <<>>, -1, FALSE)
        ELSE IF checks /\ t.ovf THEN Panic(self, -1)
        ELSE IF checks /\ s.ovf THEN Panic(p1, -1)
        ELSE IF checks /\ l.ovf THEN Panic(p2, -1)
        ELSE Outcome(p3, "Ok", <<from_scaled(lp_token_received(new_tokens_u64))>>, -1,
                     t.ovf \/ s.ovf \/ l.ovf)

add_liquidity(self, token_amount, checks) ==
    LET new_tokens_u64 == to_scaled(token_amount)
        t  == u64_add(self.token_amount, tokens_to_add(new_tokens_u64))
        s  == u64_add(self.st_token_amount, staked_tokens_to_add(new_tokens_u64))
        l  == u64_add(self.lp_token_amount, lp_token_received(new_tokens_u64))
        p1 == [self EXCEPT !.token_amount = t.val]
        p2 == [p1 EXCEPT !.st_token_amount = s.val]
        p3 == [p2 EXCEPT !.lp_token_amount = l.val]
    IN  IF token_amount <= 0
        THEN Outcome(self, "InvalidTokenAmount", <<>>, -1, FALSE)
        ELSE IF checks /\ t.ovf THEN Panic(self, -1)
        ELSE IF checks /\ s.ovf THEN Panic(p1, -1)
        ELSE IF checks /\ l.ovf THEN Panic(p2, -1)
        ELSE Outcome(p3, "Ok", <<from_scaled(lp_token_received(new_tokens_u64))>>, -1,
                     t.ovf \/ s.ovf \/ l.ovf)

\* ------------------------------------------------ LpPool::remove_liquidity
\* let tokens_received_u64 = lp_token_amount_u64; // Simplified logic
remove_tokens_received(self, lp_token_amount_u64) == lp_token_amount_u64

\* let staked_tokens_received_u64 = 0; // Simplified logic
remove_staked_tokens_received(self, lp_token_amount_u64) == 0

\* Mutant: the shares are burned before the supply is compared with the request.
remove_liquidity_burn_first(self, lp_token_amount, checks) ==
    LET lp_token_amount_u64 == to_scaled(lp_token_amount)
        d    == u64_sub(self.max_fee, self.min_fee)
        prod == u64_mul(d.val, lp_token_amount_u64)
        quo  == prod.val \div self.liquidity_target
        unstake_fee == u64_sub(self.max_fee, quo)
        feeWrapped  == d.ovf \/ prod.ovf \/ unstake_fee.ovf
        l  == u64_sub(self.lp_token_amount, lp_token_amount_u64)
        p1 == [self EXCEPT !.lp_token_amount = l.val]
        t  == u64_sub(p1.token_amount, remove_tokens_received(self, lp_token_amount_u64))
        p2 == [p1 EXCEPT !.token_amount = t.val]
    IN  IF checks /\ (d.ovf \/ prod.ovf) THEN Panic(self, -1)
        ELSE IF self.liquidity_target = 0 THEN Panic(self, -1)
        ELSE IF checks /\ unstake_fee.ovf THEN Panic(self, -1)
        ELSE IF checks /\ l.ovf THEN Panic(self, unstake_fee.val)
        ELSE IF p1.lp_token_amount < lp_token_amount_u64
        THEN Outcome(p1, "InsufficientLiquidity", <<>>, unstake_fee.val,
                     feeWrapped \/ l.ovf)
        ELSE IF checks /\ t.ovf THEN Panic(p1, unstake_fee.val)
        ELSE Outcome(p2, "Ok",
                     <<from_scaled(remove_tokens_received(self, lp_token_amount_u64)),
                       from_scaled(remove_staked_tokens_received(self, lp_token_amount_u64))>>,
                     unstake_fee.val, feeWrapped \/ l.ovf \/ t.ovf)

remove_liquidity(self, lp_token_amount, checks) ==
    LET lp_token_amount_u64 == to_scaled(lp_token_amount)
        d    == u64_sub(self.max_fee, self.min_fee)
        prod == u64_mul(d.val, lp_token_amount_u64)
        quo  == prod.val \div self.liquidity_target
        unstake_fee == u64_sub(self.max_fee, quo)
        feeWrapped  == d.ovf \/ prod.ovf \/ unstake_fee.ovf
        l  == u64_sub(self.lp_token_amount, lp_token_amount_u64)
        p1 == [self EXCEPT !.lp_token_amount = l.val]
        t  == u64_sub(p1.token_amount, remove_tokens_received(self, lp_token_amount_u64))
        p2 == [p1 EXCEPT !.token_amount = t.val]
    IN  IF checks /\ (d.ovf \/ prod.ovf) THEN Panic(self, -1)
        ELSE IF self.liquidity_target = 0 THEN Panic(self, -1)
        ELSE IF checks /\ unstake_fee.ovf THEN Panic(self, -1)
        ELSE IF self.lp_token_amount < lp_token_amount_u64
        THEN Outcome(self, "InsufficientLiquidity", <<>>, unstake_fee.val, feeWrapped)
        ELSE IF checks /\ t.ovf THEN Panic(p1, unstake_fee.val)
        ELSE Outcome(p2, "Ok",
                     <<from_scaled(remove_tokens_received(self, lp_token_amount_u64)),
                       from_scaled(remove_staked_tokens_received(self, lp_token_amount_u64))>>,
                     unstake_fee.val, feeWrapped \/ t.ovf)

\* ------------------------------------------------------------ LpPool::swap
\* (staked_token_u64.0 as f64 * swap_ratio * (1.0 - fee)) as u64 with
\* swap_ratio = price / PRECISION_FACTOR and fee = 0.01 * fee_raw / PRECISION_FACTOR:
\* the floor of staked * price * (100 * PRECISION_FACTOR - fee_raw)
\*              / (100 * PRECISION_FACTOR^2), and 0 when fee >= 1.
swap_tokens_received(staked, price, fee_raw) ==
    IF fee_raw >= 100 * PRECISION_FACTOR THEN 0
    ELSE LET g  == staked * price
             k  == 100 * PRECISION_FACTOR - fee_raw
             g1 == g \div PRECISION_FACTOR
             g0 == g % PRECISION_FACTOR
         IN  as_u64((g1 * k + (g0 * k) \div PRECISION_FACTOR) \div (100 * PRECISION_FACTOR))

\* if staked_token_u64.0 > self.st_token_amount.0 { return Err(..) }
swap_insufficient(self, staked) == staked > self.st_token_amount

swap(self, staked_token_amount, checks) ==
    LET staked_token_u64   == to_scaled(staked_token_amount)
        left_staked_tokens == u64_sub(self.st_token_amount, staked_token_u64)
        d   == u64_sub(self.max_fee, self.min_fee)
        q   == d.val \div self.liquidity_target
        m   == u64_mul(q, left_staked_tokens.val)
        fee_raw == u64_sub(self.max_fee, m.val)
        feeWrapped == left_staked_tokens.ovf \/ d.ovf \/ m.ovf \/ fee_raw.ovf
        tokens_received_u64 == swap_tokens_received(staked_token_u64, self.price, fee_raw.val)
        s  == u64_sub(self.st_token_amount, staked_token_u64)
        p1 == [self EXCEPT !.st_token_amount = s.val]
        t  == u64_add(p1.token_amount, tokens_received_u64)
        p2 == [p1 EXCEPT !.token_amount = t.val]
    IN  IF staked_token_amount <= 0
        THEN Outcome(self, "InvalidTokenAmount", <<>>, -1, FALSE)
        ELSE IF checks /\ (left_staked_tokens.ovf \/ d.ovf) THEN Panic(self, -1)
        ELSE IF self.liquidity_target = 0 THEN Panic(self, -1)
        ELSE IF checks /\ (m.ovf \/ fee_raw.ovf) THEN Panic(self, -1)
        ELSE IF swap_insufficient(self, staked_token_u64)
        THEN Outcome(self, "InsufficientStakedTokens", <<>>, fee_raw.val, feeWrapped)
        ELSE IF checks /\ t.ovf THEN Panic(p1, fee_raw.val)
        ELSE Outcome(p2, "Ok", <<from_scaled(tokens_received_u64)>>, fee_raw.val,
                     feeWrapped \/ t.ovf)

\* ------------------------------------------------------------ the machine
VARIABLES
    pool,             \* the LpPool fields
    phase,            \* "Uninitialized", "Active" or "Panicked"
    overflow_checks,  \* TRUE: overflow panics (debug); FALSE: it wraps (release)
    op,               \* the last call
    arg,              \* its decimal arguments
    res,              \* "Ok", an LpPoolError or "Panic"
    ret,              \* the decimals it returned
    fee,              \* the raw fee expression it computed, -1 if none
    wrapped,          \* an integer operation of the call wrapped
    pre,              \* the fields when the call started
    calls,            \* number of calls made on the pool since init built it
    ledger            \* the callers' account of the LP supply (scaled)

vars == <<pool, phase, overflow_checks, op, arg, res, ret, fee, wrapped, pre, calls,
          ledger>>

\* Arguments the callers pass.
Amounts == {-1, 0, 1, 2, One \div 2 - 2} \cup {j * (One \div 2) : j \in 1..MaxAmount}

Prices == {One, 3 * (One \div 2)}

LiquidityTargets == {0, 1, One \div 2, 2 * One}

MinFees == {-1, 0, 90, 100}

MaxFees == {90, 1000, 1001}

Init ==
    /\ pool = NoPool
    /\ phase = "Uninitialized"
    /\ overflow_checks \in BOOLEAN
    /\ op = "none"
    /\ arg = <<>>
    /\ res = "none"
    /\ ret = <<>>
    /\ fee = -1
    /\ wrapped = FALSE
    /\ pre = NoPool
    /\ calls = 0
    /\ ledger = 0

\* The LP supply as the callers of the successful calls account for it: the
\* amount init seeds, plus the LP amounts add_liquidity returned, minus the LP
\* amounts remove_liquidity was asked to burn.
LedgerAfter(name, args, out) ==
    IF out.res # "Ok" THEN ledger
    ELSE IF name = "init" THEN to_scaled(args[2])
    ELSE IF name = "add_liquidity" THEN ledger + to_scaled(out.ret[1])
    ELSE IF name = "remove_liquidity" THEN ledger - to_scaled(args[1])
    ELSE ledger

Record(name, args, out) ==
    /\ op' = name
    /\ arg' = args
    /\ pre' = pool
    /\ pool' = out.pool
    /\ res' = out.res
    /\ ret' = out.ret
    /\ fee' = out.fee
    /\ wrapped' = out.wrapped
    /\ ledger' = LedgerAfter(name, args, out)
    /\ UNCHANGED overflow_checks

InitWith(targets) ==
    /\ phase = "Uninitialized"
    /\ \E price \in Prices, liquidity_target \in targets,
          min_fee \in MinFees, max_fee \in MaxFees :
          LET out == init(price, liquidity_target, min_fee, max_fee)
          IN  /\ Record("init", <<price, liquidity_target, min_fee, max_fee>>, out)
              /\ phase' = IF out.res = "Ok" THEN "Active" ELSE "Uninitialized"
              /\ calls' = 0

InitCall == InitWith(LiquidityTargets)

\* init called with a target that is invalid or whose scaled value is not zero.
InitCallSeeded == InitWith({t \in LiquidityTargets : t <= 0 \/ to_scaled(t) > 0})

Call(name, args, out) ==
    /\ calls < MaxCalls
    /\ calls' = calls + 1
    /\ Record(name, args, out)
    /\ phase' = IF out.res = "Panic" THEN "Panicked" ELSE "Active"

AddLiquidity ==
    /\ phase = "Active"
    /\ \E token_amount \in Amounts :
          /\ from_scaled(pool.lp_token_amount) + token_amount <= MaxSupply * (One \div 2)
          /\ Call("add_liquidity", <<token_amount>>,
                  add_liquidity(pool, token_amount, overflow_checks))

RemoveLiquidity ==
    /\ phase = "Active"
    /\ \E lp_token_amount \in Amounts :
          Call("remove_liquidity", <<lp_token_amount>>,
               remove_liquidity(pool, lp_token_amount, overflow_checks))

Swap ==
    /\ phase = "Active"
    /\ \E staked_token_amount \in Amounts :
          Call("swap", <<staked_token_amount>>,
               swap(pool, staked_token_amount, overflow_checks))

Next == InitCall \/ AddLiquidity \/ RemoveLiquidity \/ Swap

Spec == Init /\ [][Next]_vars

\* The runs in which the pool, once built, has a non-zero liquidity_target.
NextSeeded == InitCallSeeded \/ AddLiquidity \/ RemoveLiquidity \/ Swap

SpecSeeded == Init /\ [][NextSeeded]_vars

\* --------------------------------------------- tests::test_story_example
\* setup_pool(): LpPool::init(1.5, 90.0, 0.1, 9.0)
StoryArgs == <<3 * (One \div 2), 90 * One, 1, 90>>

\* The amounts the story passes to add_liquidity and swap.
StoryAmounts == {100 * One, 6 * One, 10 * One, 30 * One}

SetupPool ==
    /\ phase = "Uninitialized"
    /\ LET out == init(StoryArgs[1], StoryArgs[2], StoryArgs[3], StoryArgs[4])
       IN  /\ Record("init", StoryArgs, out)
           /\ phase' = IF out.res = "Ok" THEN "Active" ELSE "Uninitialized"
           /\ calls' = 0

StoryAddLiquidity ==
    /\ phase = "Active"
    /\ \E token_amount \in StoryAmounts :
          /\ from_scaled(pool.lp_token_amount) + token_amount <= MaxStorySupply * One
          /\ Call("add_liquidity", <<token_amount>>,
                  add_liquidity(pool, token_amount, overflow_checks))

StorySwap ==
    /\ phase = "Active"
    /\ \E staked_token_amount \in StoryAmounts :
          Call("swap", <<staked_token_amount>>,
               swap(pool, staked_token_amount, overflow_checks))

NextStory == SetupPool \/ StoryAddLiquidity \/ StorySwap

\* The runs that start with setup_pool() and call add_liquidity and swap with
\* the amounts of the story, in any order.
SpecStory == Init /\ [][NextStory]_vars

\* The pool after setup_pool() and after each of the first three calls of
\* the story.
StoryPool0 == init(StoryArgs[1], StoryArgs[2], StoryArgs[3], StoryArgs[4]).pool
StoryPool1 == add_liquidity(StoryPool0, 100 * One, overflow_checks).pool
StoryPool2 == swap(StoryPool1, 6 * One, overflow_checks).pool
StoryPool3 == add_liquidity(StoryPool2, 10 * One, overflow_checks).pool

TypeOK ==
    /\ pool \in LpPool
    /\ phase \in {"Uninitialized", "Active", "Panicked"}
    /\ res \in LpPoolError \cup {"Ok", "Panic", "none"}

\* ============================================================== claims
\* The gross base-token output of a swap as the specification defines it:
\* staked amount times price, one factor of PRECISION_FACTOR divided out.
gross_tokens_out(p, staked_token_amount) ==
    (to_scaled(staked_token_amount) * p.price) \div PRECISION_FACTOR

\* C1: a swap of a positive staked amount whose gross output exceeds the
\* pool's token_amount returns InsufficientStakedTokens, no unsigned
\* operation of the call underflows, and every pool field is unchanged.
C1_SwapRejectsOverdraw ==
    (op = "swap" /\ arg[1] > 0 /\ gross_tokens_out(pre, arg[1]) > pre.token_amount)
        => (res = "InsufficientStakedTokens" /\ ~wrapped /\ pool = pre)

\* C2: a successful swap of scaled staked amount s increases st_token_amount
\* by s, decreases token_amount by the net output it returns, and leaves
\* lp_token_amount unchanged.
C2_SwapSideEffects ==
    (op = "swap" /\ res = "Ok")
        => /\ pool.st_token_amount = pre.st_token_amount + to_scaled(arg[1])
           /\ from_scaled(pre.token_amount - pool.token_amount) = ret[1]
           /\ pool.lp_token_amount = pre.lp_token_amount

\* C3: a swap of a positive staked amount whose gross output does not exceed
\* token_amount succeeds, whatever st_token_amount is.
C3_SwapNoStakedCap ==
    (op = "swap" /\ arg[1] > 0 /\ gross_tokens_out(pre, arg[1]) <= pre.token_amount)
        => res = "Ok"

\* C4: a successful add_liquidity of scaled contribution c adds c to
\* token_amount and to lp_token_amount and leaves st_token_amount unchanged.
C4_AddLiquidityAllBase ==
    (op = "add_liquidity" /\ res = "Ok")
        => /\ pool.token_amount = pre.token_amount + to_scaled(arg[1])
           /\ pool.lp_token_amount = pre.lp_token_amount + to_scaled(arg[1])
           /\ pool.st_token_amount = pre.st_token_amount

C6_RemoveLiquidityProportional ==
    (op = "remove_liquidity" /\ res = "Ok" /\ pre.lp_token_amount > 0)
        => LET b == to_scaled(arg[1])
               L == pre.lp_token_amount
               tokens_out == (pre.token_amount * b) \div L
               staked_tokens_out == (pre.st_token_amount * b) \div L
           IN  /\ ret[2] = from_scaled(staked_tokens_out)
               /\ pool.lp_token_amount = L - b
               /\ pool.token_amount = pre.token_amount - tokens_out
               /\ pool.st_token_amount = pre.st_token_amount - staked_tokens_out

\* C7: the fee remove_liquidity computes lies within [min_fee, max_fee], and
\* with min_fee > 0 the base tokens returned are strictly less than the
\* gross amount taken out of the reserve.
C7_RemoveLiquidityFeeApplied ==
    (op = "remove_liquidity" /\ res = "Ok" /\ to_scaled(arg[1]) > 0)
        => /\ pre.min_fee <= fee /\ fee <= pre.max_fee
           /\ pre.min_fee > 0
                => ret[1] < from_scaled(pre.token_amount - pool.token_amount)

\* C8: remove_liquidity changes lp_token_amount only when token_amount covers
\* the withdrawal, and then token_amount is reduced with it.
C8_RemoveLiquidityAtomic ==
    (op = "remove_liquidity" /\ pool.lp_token_amount # pre.lp_token_amount)
        => /\ to_scaled(arg[1]) <= pre.token_amount
           /\ pool.token_amount = pre.token_amount - to_scaled(arg[1])

\* C9: remove_liquidity called with a scaled amount greater than the LP
\* supply returns InsufficientLiquidity, without a panic or a wrap in the
\* fee arithmetic before the check.
C9_RemoveLiquidityInsufficient ==
    (op = "remove_liquidity" /\ to_scaled(arg[1]) > pre.lp_token_amount)
        => (res = "InsufficientLiquidity" /\ ~wrapped)

\* C10: whenever add_liquidity, remove_liquidity or swap returns an error,
\* every pool field equals its value before the call.
C10_RejectionLeavesState ==
    (op \in {"add_liquidity", "remove_liquidity", "swap"} /\ res \in LpPoolError)
        => pool = pre

\* C10 witness: a remove_liquidity asking for more than the supply of a pool
\* that holds both reserves is rejected.
C10_Witness ==
    /\ op = "remove_liquidity" /\ res = "InsufficientLiquidity"
    /\ pre.lp_token_amount > 0 /\ pre.st_token_amount > 0
    /\ to_scaled(arg[1]) > pre.lp_token_amount
    /\ pool = pre

\* C11: for every accepted swap the fee fraction applied (fee / (100 *
\* PRECISION_FACTOR), the code's 0.01 * fee_raw / PRECISION_FACTOR) lies in
\* [min_fee, max_fee] (fractions min_fee / PRECISION_FACTOR and max_fee /
\* PRECISION_FACTOR), and equals min_fee whenever the projected reserve
\* token_amount - gross_tokens_out is at least liquidity_target.
C11_SwapFeeCurve ==
    (op = "swap" /\ res = "Ok")
        => /\ 100 * pre.min_fee <= fee /\ fee <= 100 * pre.max_fee
           /\ pre.token_amount - gross_tokens_out(pre, arg[1]) >= pre.liquidity_target
                => fee = 100 * pre.min_fee

\* C12: from one pool state, of two staked amounts a < b that swap both
\* accepts, the fee computed for b is not lower than the fee computed for a.
C12_SwapFeeMonotone ==
    phase = "Active"
        => \A a \in Amounts, b \in Amounts :
              LET sa == swap(pool, a, overflow_checks)
                  sb == swap(pool, b, overflow_checks)
              IN  (a < b /\ sa.res = "Ok" /\ sb.res = "Ok") => sa.fee <= sb.fee

\* C13: init returns InvalidFee exactly when max_fee > 100, min_fee < 0,
\* min_fee > max_fee or liquidity_target <= 0 (fees in tenths of a percent),
\* and returns a pool for every other input.
C13_InitValidation ==
    op = "init"
        => /\ res \in {"Ok", "InvalidFee"}
           /\ res = "InvalidFee"
                <=> (arg[4] > 1000 \/ arg[3] < 0 \/ arg[3] > arg[4] \/ arg[2] <= 0)

\* C13 witness: init rejects fees that are in range but out of order.
C13_Witness ==
    /\ op = "init" /\ res = "InvalidFee"
    /\ arg[2] > 0 /\ arg[3] >= 0 /\ arg[4] <= 1000 /\ arg[3] > arg[4]
    /\ phase = "Uninitialized"

\* n is the decimal x (in quarter units) times PRECISION_FACTOR, rounded to
\* the nearest integer.
IsScaled(n, x) == 4 * n - x <= 2 /\ x - 4 * n <= 2

\* n is the fee t (tenths of a percent) times 0.01 * PRECISION_FACTOR,
\* rounded to the nearest integer.
IsScaledFee(n, t) ==
    /\ 1000 * n - t * PRECISION_FACTOR <= 500
    /\ t * PRECISION_FACTOR - 1000 * n <= 500

\* C14: the pool a successful init returns has token_amount and
\* lp_token_amount equal to the scaled liquidity_target, st_token_amount 0,
\* and stores the scaled price and the scaled fees times 0.01.
C14_InitSeedsPool ==
    (op = "init" /\ res = "Ok")
        => /\ IsScaled(pool.liquidity_target, arg[2])
           /\ pool.token_amount = pool.liquidity_target
           /\ pool.lp_token_amount = pool.liquidity_target
           /\ pool.st_token_amount = 0
           /\ IsScaled(pool.price, arg[1])
           /\ IsScaledFee(pool.min_fee, arg[3])
           /\ IsScaledFee(pool.max_fee, arg[4])

\* C14 witness: a pool built with a price that is not a whole number and
\* with two different non-zero fees.
C14_Witness ==
    /\ op = "init" /\ res = "Ok"
    /\ arg[1] = 3 * (One \div 2) /\ arg[2] = 2 * One
    /\ arg[3] > 0 /\ arg[4] > arg[3]
    /\ pool.token_amount = 2 * PRECISION_FACTOR /\ pool.st_token_amount = 0
    /\ pool.min_fee > 0 /\ pool.max_fee = PRECISION_FACTOR

\* C15: add_liquidity and swap called with an amount that is zero or negative
\* return InvalidTokenAmount, in every reachable pool state.
C15_NonPositiveAmountRejected ==
    (op \in {"add_liquidity", "swap"} /\ arg[1] <= 0) => res = "InvalidTokenAmount"

\* C15 witness: add_liquidity of zero is rejected by a pool that holds both
\* reserves.
C15_Witness ==
    /\ op = "add_liquidity" /\ arg[1] = 0 /\ res = "InvalidTokenAmount"
    /\ pre.st_token_amount > 0 /\ pre.token_amount > 0

\* C16: after any sequence of successful calls lp_token_amount is the amount
\* init seeded plus the LP amounts add_liquidity returned minus the LP amounts
\* remove_liquidity burned (the callers' ledger); swap leaves it unchanged.
C16_LpSupplyAccounting ==
    /\ phase = "Active" => pool.lp_token_amount = ledger
    /\ op = "swap" => pool.lp_token_amount = pre.lp_token_amount

\* C16 witness: a positive burn in a pool whose supply differs from the seed
\* and whose reserves a swap has moved.
C16_Witness ==
    /\ phase = "Active" /\ op = "remove_liquidity" /\ res = "Ok"
    /\ to_scaled(arg[1]) > 0
    /\ pool.lp_token_amount = ledger
    /\ pool.lp_token_amount # pool.liquidity_target
    /\ pool.token_amount + pool.st_token_amount # pool.lp_token_amount

\* C17: once init has seeded the pool, lp_token_amount > 0 holds after every
\* successful call: no sequence of successful add_liquidity, remove_liquidity
\* and swap calls reaches lp_token_amount = 0.
C17_LpSupplyPositive ==
    (phase = "Active" /\ res = "Ok") => pool.lp_token_amount > 0

\* C18: in every state of a pool a successful init created, price,
\* liquidity_target, min_fee and max_fee are the values init stored (no
\* add_liquidity, remove_liquidity or swap changes them), min_fee <= max_fee
\* and the stored liquidity_target is positive.
C18_ParametersFixed ==
    /\ (op \in {"add_liquidity", "remove_liquidity", "swap"})
          => /\ pool.price = pre.price
             /\ pool.liquidity_target = pre.liquidity_target
             /\ pool.min_fee = pre.min_fee
             /\ pool.max_fee = pre.max_fee
    /\ phase # "Uninitialized"
          => /\ pool.min_fee <= pool.max_fee
             /\ pool.liquidity_target > 0

\* C20: the fee arithmetic stays inside [0, 2^64 - 1] at every step, for a
\* remove_liquidity request not above the LP supply and for a swap request
\* not above the staked reserve: the product, and max_fee minus the product,
\* of max_fee - (max_fee - min_fee) * amount / liquidity_target.
C20_FeeArithmeticInRange ==
    /\ (/\ op = "remove_liquidity"
        /\ pre.liquidity_target > 0
        /\ to_scaled(arg[1]) <= pre.lp_token_amount)
          => LET product == (pre.max_fee - pre.min_fee) * to_scaled(arg[1])
             IN  /\ product <= U64_MAX
                 /\ pre.max_fee - (product \div pre.liquidity_target) >= 0
    /\ (/\ op = "swap"
        /\ pre.liquidity_target > 0
        /\ arg[1] > 0
        /\ to_scaled(arg[1]) <= pre.st_token_amount)
          => LET left_staked_tokens == pre.st_token_amount - to_scaled(arg[1])
                 product == ((pre.max_fee - pre.min_fee) \div pre.liquidity_target)
                                * left_staked_tokens
             IN  /\ product <= U64_MAX
                 /\ pre.max_fee - product >= 0

\* The decimal x (in units of 1 / One) is within tol / 100000 + slack / One
\* of whole + frac / 100000.
IsNear(x, whole, frac, tol, slack) ==
    LET diff  == (x - whole * One) * 100000 - frac * One
        bound == tol * One + slack * 100000
    IN  diff <= bound /\ -diff <= bound

\* Two scaled units, in units of 1 / One: more than the rounding of the fee
\* and of the output can move a swap output by at this precision.
SwapResolution == 2 * (One \div PRECISION_FACTOR)

\* C19: from init(1.5, 90, 0.1, 9) the calls add_liquidity(100), swap(6),
\* add_liquidity(10), swap(30) all succeed and return 100.0, a value within
\* 0.001 of 8.991, 9.9991 and 43.44237. The values add_liquidity returns are
\* exact at this precision and are compared exactly; the swap outputs are
\* compared up to the resolution of the scaled arithmetic.
C19_StoryExample ==
    /\ (op = "add_liquidity" /\ arg = <<100 * One>> /\ pre = StoryPool0)
          => res = "Ok" /\ ret[1] = 100 * One
    /\ (op = "swap" /\ arg = <<6 * One>> /\ pre = StoryPool1)
          => res = "Ok" /\ IsNear(ret[1], 8, 99100, 100, SwapResolution)
    /\ (op = "add_liquidity" /\ arg = <<10 * One>> /\ pre = StoryPool2)
          => res = "Ok" /\ IsNear(ret[1], 9, 99910, 0, 0)
    /\ (op = "swap" /\ arg = <<30 * One>> /\ pre = StoryPool3)
          => res = "Ok" /\ IsNear(ret[1], 43, 44237, 0, SwapResolution)

====
